---- MODULE Spec2Model ----
(***************************************************************************)
(* A model of the DXF analysis engine of src/src/dxf_analyzer.py: the      *)
(* DXFAnalyzer instance state, one analyze_dxf_file call stepped through   *)
(* its validator pipeline, the health score, the recommendations and the   *)
(* assembled result.                                                       *)
(*                                                                         *)
(* The Document Model (the parsing library) is outside the repository.  It *)
(* is modelled as the data the analyzer reads: layouts of entities with a  *)
(* type tag, a handle, and optional attributes.  An attribute the code     *)
(* probes with hasattr may be absent; reading an absent attribute without  *)
(* a guard raises, which the model records as a fault of the step.         *)
(*                                                                         *)
(* Lengths are integers in units of 0.0001 mm (MM(1) = 10000) so that the  *)
(* rounding to 3 decimals of the fingerprint is a real conversion.  The    *)
(* health percentage is an integer number of hundredths (10000 = 100.00).  *)
(* The text fields of an ErrorReport (title, description, cause,           *)
(* suggestion) are functions of the fields kept here and are left out.     *)
(***************************************************************************)
EXTENDS Integers, Sequences, FiniteSets, TLC

\* ------------------------------------------------------------------ bounds

\* The largest number of entities of one document, over all its layouts.
MaxEntities == 3

\* The largest number of entities of the paper layout of a document.
MaxPaperEntities == 1

\* The largest number of entities of a document whose file profile is not
\* the plain one (newer format version, big file, hidden layers).
MaxProfiledEntities == 1

\* The largest number of entities of a document of polylines.
MaxPolylineEntities == 2

\* The number of entities of a large drawing.
LargeCount == 12001

\* The largest number of lines of a drawing of lines that carry a line weight.
MaxWeighted == 3

\* The largest number of entities of the file of the first of two concurrent
\* calls.
MaxConcurrentEntities == 1

\* The largest number of entities of a different file analysed next on an
\* engine instance that is being reused.
MaxReuseEntities == 1

\* ------------------------------------------------------- program constants

MIN_SIZE_MM == 5

MAX_SIZE_MM == 3000

MAX_FILE_SIZE_MB == 50

\* DXFAnalyzer.__init__(min_distance_mm = 1.0)
min_distance_mm == 1

\* abs(coordinate) > 2000 is outside the working area (Error 5)
AreaLimit == 2000

\* version > 'AC1027': versions are compared by their number
VersionCutoff == 1027

\* vertex_count > 100 (Warning 18)
MaxVertexCount == 100

\* size < 1.0 (Warning 28)
MinEntitySize == 1

\* width > 3000 or height > 3000 (Warning 29)
MaxExtent == 3000

\* width < 5 or height < 5 (Warning 30)
MinExtent == 5

critical_weight == 10

warning_weight == 3

export_weight == 5

VALID_LAYERS == {"CUT", "ENGRAVE", "MARK", "ETCH", "SCORE", "REFERENCE"}

reference_layers == {"LAYER 0", "SKETCH", "REFERENCE", "GUIDE", "DEFPOINTS"}

\* --------------------------------------------------------------- utilities

MM(n) == n * 10000

Abs(n) == IF n < 0 THEN -n ELSE n

Min2(a, b) == IF a < b THEN a ELSE b

Max2(a, b) == IF a > b THEN a ELSE b

\* An optional attribute is a sequence of length 0 (absent) or 1 (present).
Has(opt) == Len(opt) = 1

Get(opt) == opt[1]

\* The layer name as written, letter case kept.
UpperAsWritten(s) == s

\* str.upper() on the layer names the model uses.
Upper(s) ==
    CASE s = "cut" -> "CUT"
      [] s = "MyLayer" -> "MYLAYER"
      [] s = "Engrave" -> "ENGRAVE"
      [] s = "Mark" -> "MARK"
      [] OTHER -> s

\* any(ref in layer_name for ref in reference_layers): substring test on the
\* upper-cased layer names the model uses.
ContainsReference(upper_name) ==
    upper_name \in {"REFERENCE"}

\* round(x, 3): x in units of 0.0001 mm, the result in units of 0.001 mm.
\* Python rounds half to even and keeps the sign of a negative x that rounds
\* to zero (-0.0, which str() prints differently from 0.0).
Round3(x) ==
    LET a == Abs(x)
        q == a \div 10
        r == a % 10
        n == IF r > 5 \/ (r = 5 /\ q % 2 = 1) THEN q + 1 ELSE q
    IN  [negative |-> x < 0, magnitude |-> n]

\* --------------------------------------------------------- Document Model

Pt(x, y, z) == <<x, y, z>>

\* An entity: type tag, optional layer, closed flag (polylines), the defining
\* points (start and end of a LINE, the vertices of a polyline), the
\* line weight and an optional native bounding box <<xmin, ymin, xmax, ymax>>.
\* The polylines of the model are POLYLINE entities, whose vertices carry
\* dxf.location; every entity has a handle, read as entity.dxf.handle and,
\* by the distance check, as entity.handle.
Ent(t, layer, closed, pts, lw, bbox) ==
    [type |-> t, layer |-> layer, closed |-> closed, pts |-> pts,
     lineweight |-> lw, bounding_box |-> bbox]

LineCut ==
    Ent("LINE", <<"CUT">>, FALSE, <<Pt(0, 0, 0), Pt(MM(10), 0, 0)>>, 0, <<>>)

\* Same layer as LineCut; the start differs by 0.0004 mm, below the rounding.
LineCutNear ==
    Ent("LINE", <<"CUT">>, FALSE, <<Pt(4, 0, 0), Pt(MM(10), 0, 0)>>, 0, <<>>)

\* On the default layer, 0.5 mm above LineCut, reaching outside the area,
\* with an explicit line weight.
LineZeroFar ==
    Ent("LINE", <<"0">>, FALSE,
        <<Pt(0, 5000, 0), Pt(MM(2001), 5000, 0)>>, 25, <<>>)

\* No layer attribute; the start is 1 mm out of the plane.
LineNoLayer ==
    Ent("LINE", <<>>, FALSE,
        <<Pt(0, MM(60), MM(1)), Pt(MM(10), MM(60), 0)>>, 0, <<>>)

\* An open polyline on a cut layer written in lower case, 0.3 mm long.
PolyOpenCut ==
    Ent("POLYLINE", <<"cut">>, FALSE,
        <<Pt(0, MM(20), 0), Pt(3000, MM(20), 0)>>, 0, <<>>)

\* A closed polyline on a custom layer, with a native bounding box.
PolyClosedCustom ==
    Ent("POLYLINE", <<"MyLayer">>, TRUE,
        <<Pt(0, MM(40), 0), Pt(MM(3100), MM(40), 0), Pt(MM(3100), MM(46), 0)>>,
        0, << <<0, MM(40), MM(3100), MM(46)>> >>)

\* Editable text on a reference layer.
TextRef ==
    Ent("TEXT", <<"REFERENCE">>, FALSE, <<>>, 0, <<>>)

EntityPool ==
    {LineCut, LineCutNear, LineZeroFar, LineNoLayer, PolyOpenCut,
     PolyClosedCustom, TextRef}

\* The entities of the paper layout, a part of the pool.  The loops over all
\* layouts (count, critical checks, warnings, duplicates) treat an entity of
\* the paper layout as one of the primary drawing space, which draws from the
\* whole pool; the other validators do not read the paper layout.
PaperPool == {LineCut, LineCutNear, PolyOpenCut, TextRef}

\* Polylines that differ in what the open-vector check reads: closed or not,
\* the layer and its letter case, a layer attribute or none.
PolyOpenEngrave ==
    Ent("POLYLINE", <<"Engrave">>, FALSE,
        <<Pt(0, MM(70), 0), Pt(MM(8), MM(70), 0)>>, 0, <<>>)

PolyClosedCut ==
    Ent("POLYLINE", <<"CUT">>, TRUE,
        <<Pt(0, MM(80), 0), Pt(MM(8), MM(80), 0), Pt(MM(8), MM(88), 0)>>,
        0, <<>>)

PolyOpenMark ==
    Ent("POLYLINE", <<"Mark">>, FALSE,
        <<Pt(0, MM(90), 0), Pt(MM(8), MM(90), 0)>>, 0, <<>>)

PolyOpenNoLayer ==
    Ent("POLYLINE", <<>>, FALSE,
        <<Pt(0, MM(95), 0), Pt(MM(8), MM(95), 0)>>, 0, <<>>)

\* With a line, a text and a polyline on a custom layer, so that the documents
\* drawn from this pool give every critical record the advice depends on, and
\* a document without any record (the closed polyline on CUT alone).
PolylinePool ==
    {PolyOpenCut, PolyOpenEngrave, PolyClosedCut, PolyOpenMark,
     PolyOpenNoLayer, LineCut, TextRef, PolyClosedCustom}

PolylinePaperPool == {PolyOpenCut, PolyClosedCut}

\* entity.dxf.handle: handles are unique in a document; the entity at
\* position i of the document (layouts in order) has handle HandleNames[i].
HandleNames == <<"H1", "H2", "H3", "H4", "H5", "H6">>

\* A layer of the layer table: name, is_off, is_frozen.
Layer(name, off, frozen) == [name |-> name, is_off |-> off, is_frozen |-> frozen]

\* The file-level part of a document: dxfversion (its number), the size of
\* the file in MB (absent when os.path.getsize fails) and the layer table.
PlainProfile ==
    [dxfversion |-> 1024, size_mb |-> <<10>>,
     layers |-> <<Layer("0", FALSE, FALSE), Layer("CUT", FALSE, FALSE)>>]

NewBigProfile ==
    [dxfversion |-> 1032, size_mb |-> <<60>>,
     layers |-> <<Layer("0", FALSE, FALSE), Layer("CUT", TRUE, FALSE)>>]

NoSizeProfile ==
    [dxfversion |-> 1027, size_mb |-> <<>>,
     layers |-> <<Layer("0", FALSE, TRUE), Layer("MyLayer", FALSE, FALSE)>>]

\* The documents with profile p and at most n entities: the entities of the
\* primary drawing space (modelspace) and those of the paper layout.
DocsOf(p, n) ==
    UNION {{[profile |-> p, msp |-> m, psp |-> q] :
               m \in [1..k[1] -> EntityPool], q \in [1..k[2] -> PaperPool]} :
           k \in {x \in (0..n) \X (0..MaxPaperEntities) : x[1] + x[2] <= n}}

\* A line 0.3 mm long on layer MARK whose start is 0.01 mm out of the plane:
\* no critical check reports it.
LineMarkTiny ==
    Ent("LINE", <<"MARK">>, FALSE, <<Pt(0, 0, 100), Pt(3000, 0, 0)>>, 0, <<>>)

\* That line alone in a large file of a recent version: warnings and export
\* errors only.
TinyMarkDocument ==
    [profile |-> NewBigProfile, msp |-> <<LineMarkTiny>>, psp |-> <<>>]

Docs ==
    DocsOf(PlainProfile, MaxEntities)
        \cup DocsOf(NewBigProfile, MaxProfiledEntities)
        \cup DocsOf(NoSizeProfile, MaxProfiledEntities)
        \cup {TinyMarkDocument}

\* The documents of polylines: the plain profile, at most n entities.
PolylineDocs(n) ==
    UNION {{[profile |-> PlainProfile, msp |-> m, psp |-> q] :
               m \in [1..k[1] -> PolylinePool],
               q \in [1..k[2] -> PolylinePaperPool]} :
           k \in {x \in (0..n) \X (0..MaxPaperEntities) : x[1] + x[2] <= n}}

\* A file path names either a file that ezdxf.readfile loads into a document
\* or one it fails on (missing, corrupt, not a DXF file).
Loadable(d) == [loadable |-> TRUE, content |-> <<d>>]

Unloadable == [loadable |-> FALSE, content |-> <<>>]

Files == {Loadable(d) : d \in Docs} \cup {Unloadable}

PolylineFiles == {Loadable(d) : d \in PolylineDocs(MaxPolylineEntities)}

\* The files that may follow another file on a reused engine instance.
ReuseFiles ==
    {Loadable(d) : d \in DocsOf(PlainProfile, MaxReuseEntities)} \cup {Unloadable}

\* for layout in self.doc.layouts: for entity in layout: the entities of all
\* layouts in order, the primary drawing space first, each with its handle.
AllEntities(d) ==
    [i \in 1..(Len(d.msp) + Len(d.psp)) |->
        [ent |-> IF i <= Len(d.msp) THEN d.msp[i] ELSE d.psp[i - Len(d.msp)],
         handle |-> HandleNames[i]]]

\* The entities of every layout where those of the modelspace are meant.
EveryLayout(d) == AllEntities(d)

\* list(self.doc.modelspace())
Modelspace(d) ==
    [i \in 1..Len(d.msp) |-> [ent |-> d.msp[i], handle |-> HandleNames[i]]]

\* hasattr(entity.dxf, 'layer')
HasLayer(e) == Has(e.layer)

\* hasattr(entity.dxf, 'start') and hasattr(entity.dxf, 'end'): a LINE has
\* both; no other entity of the model has either.
HasStartEnd(e) == e.type = "LINE"

IsPolyline(e) == e.type \in {"LWPOLYLINE", "POLYLINE"}

\* ------------------------------------------------------------- ErrorReport

Report(id, type, affected, severity) ==
    [error_id |-> id, error_type |-> type, affected_entities |-> affected,
     severity_score |-> severity]

\* The analysis state a validator reads and appends to, with a flag that an
\* exception is propagating out of the validator.
State(e, w, x, f) ==
    [errors |-> e, warnings |-> w, export_errors |-> x, fault |-> f]

Raise(st) == [st EXCEPT !.fault = TRUE]

\* ------------------------------------------------------ Geometry Analyzer

\* _get_entity_bounds: the native bounding box if there is one, else the box
\* of start and end, else None (absent).
GetEntityBounds(e) ==
    IF Has(e.bounding_box) THEN <<Get(e.bounding_box)>>
    ELSE IF HasStartEnd(e)
         THEN << <<Min2(e.pts[1][1], e.pts[2][1]), Min2(e.pts[1][2], e.pts[2][2]),
                   Max2(e.pts[1][1], e.pts[2][1]), Max2(e.pts[1][2], e.pts[2][2])>> >>
         ELSE <<>>

\* _is_vector_entity
IsVectorEntity(e) ==
    e.type \in {"LINE", "LWPOLYLINE", "POLYLINE", "ARC", "CIRCLE"}

\* _get_entity_points: start and end of a LINE, the vertices of a polyline,
\* no point for any other type.  (Arcs and circles, sampled at 72 angles,
\* are not among the entities of the model.)
GetEntityPoints(e) ==
    IF e.type = "LINE" THEN e.pts
    ELSE IF IsPolyline(e) THEN e.pts
    ELSE <<>>

\* The distance test without its lower bound: coincident points count.
DistanceWithinOrZero(p1, p2, limit) ==
    LET dx == Abs(p2[1] - p1[1])
        dy == Abs(p2[2] - p1[2])
        dz == Abs(p2[3] - p1[3])
    IN  /\ dx < limit /\ dy < limit /\ dz < limit
        /\ dx * dx + dy * dy + dz * dz < limit * limit

\* 0 < _calculate_distance(p1, p2) < limit, the 3-D Euclidean distance.  A
\* coordinate difference of limit or more settles it without squaring, which
\* keeps the squares small.
DistanceWithin(p1, p2, limit) ==
    LET dx == Abs(p2[1] - p1[1])
        dy == Abs(p2[2] - p1[2])
        dz == Abs(p2[3] - p1[3])
    IN  /\ p1 # p2
        /\ dx < limit /\ dy < limit /\ dz < limit
        /\ dx * dx + dy * dy + dz * dz < limit * limit

\* _calculate_distance(p1, p2) as a length: exact when the two points differ
\* in one coordinate; the integer part of the square root when they differ in
\* several by at most 2.6 mm each (the squares then fit the integers of the
\* model checker); else the largest coordinate difference, a lower bound of
\* more than 2.6 mm, which settles the one comparison a length enters
\* (size < 1.0).
CalculateDistance(p1, p2) ==
    LET dx == Abs(p2[1] - p1[1])
        dy == Abs(p2[2] - p1[2])
        dz == Abs(p2[3] - p1[3])
        far == Max2(dx, Max2(dy, dz))
        s == dx * dx + dy * dy + dz * dz
    IN  IF dy = 0 /\ dz = 0 THEN dx
        ELSE IF dx = 0 /\ dz = 0 THEN dy
        ELSE IF dx = 0 /\ dy = 0 THEN dz
        ELSE IF far > 26000 THEN far
        ELSE CHOOSE r \in 0..(dx + dy + dz) : r * r <= s /\ s < (r + 1) * (r + 1)

RECURSIVE PathLength(_, _)
PathLength(points, i) ==
    IF i >= Len(points) THEN 0
    ELSE CalculateDistance(points[i], points[i + 1]) + PathLength(points, i + 1)

\* _calculate_entity_size: the length of a LINE, the summed segment lengths
\* of a polyline (0 with fewer than 2 vertices), 0 for any other type.
CalculateEntitySize(e) ==
    IF e.type = "LINE" THEN CalculateDistance(e.pts[1], e.pts[2])
    ELSE IF IsPolyline(e)
         THEN IF Len(e.pts) < 2 THEN 0 ELSE PathLength(e.pts, 1)
         ELSE 0

\* -------------------------------------------------------------- validators

\* A for loop over entities whose body may raise: the body is applied to the
\* entities in order until one raises.
RECURSIVE ForEach(_, _, _, _)
ForEach(Body(_, _), xs, i, st) ==
    IF i > Len(xs) \/ st.fault THEN st
    ELSE ForEach(Body, xs, i + 1, Body(xs[i], st))

RECURSIVE Flatten(_, _)
Flatten(seqs, i) ==
    IF i > Len(seqs) THEN <<>> ELSE seqs[i] \o Flatten(seqs, i + 1)

\* _validate_file_structure
ValidateFileStructure(d, st) ==
    IF d.profile.dxfversion > VersionCutoff
    THEN [st EXCEPT !.export_errors =
              Append(@, Report(20, "EXPORT_ERROR", <<"FILE">>, 6))]
    ELSE st

\* The body of the loop of _validate_critical_errors for one entity.
\* layer = entity.dxf.layer of an open polyline is read without a guard.
CriticalChecks(x, st) ==
    LET e == x.ent
        h == x.handle
        openPoly == IsPolyline(e) /\ ~e.closed
        bounds == GetEntityBounds(e)
        r1 == IF openPoly /\ HasLayer(e)
              THEN IF Upper(Get(e.layer)) \in {"CUT", "ENGRAVE"}
                   THEN <<Report(1, "CRITICAL", <<h>>, 10)>> ELSE <<>>
              ELSE <<>>
        r2 == IF ~HasLayer(e) THEN <<Report(2, "CRITICAL", <<h>>, 9)>>
              ELSE IF Get(e.layer) = "0"
                   THEN <<Report(2, "CRITICAL", <<h>>, 9)>> ELSE <<>>
        r3 == IF e.type \in {"TEXT", "MTEXT"}
              THEN <<Report(3, "CRITICAL", <<h>>, 8)>> ELSE <<>>
        r4 == IF HasLayer(e)
              THEN IF Upper(Get(e.layer)) \notin VALID_LAYERS
                      /\ Upper(Get(e.layer)) # "0"
                   THEN <<Report(4, "CRITICAL", <<h>>, 7)>> ELSE <<>>
              ELSE <<>>
        r5 == IF Has(bounds)
              THEN IF \E k \in 1..4 : Abs(Get(bounds)[k]) > MM(AreaLimit)
                   THEN <<Report(5, "CRITICAL", <<h>>, 8)>> ELSE <<>>
              ELSE <<>>
        r9 == IF e.lineweight > 0
              THEN <<Report(9, "CRITICAL", <<h>>, 6)>> ELSE <<>>
        r23 == IF HasStartEnd(e)
               THEN IF Abs(e.pts[1][3]) > 10
                    THEN <<Report(23, "EXPORT_ERROR", <<h>>, 5)>> ELSE <<>>
               ELSE <<>>
    IN  IF openPoly /\ ~HasLayer(e) THEN Raise(st)
        ELSE State(st.errors \o r1 \o r2 \o r3 \o r4 \o r5 \o r9, st.warnings,
                   st.export_errors \o r23, FALSE)

\* A fingerprint of the coordinates as they are, not rounded.
GetEntityHashUnrounded(e) ==
    << [type |-> e.type,
        layer |-> e.layer,
        coords |-> IF HasStartEnd(e)
                   THEN <<e.pts[1][1], e.pts[1][2], e.pts[2][1], e.pts[2][2]>>
                   ELSE <<>>] >>

\* _get_entity_hash: the fingerprint is the md5 of the printed dictionary,
\* modelled by the dictionary itself: type, layer (None when absent) and,
\* with start and end, their x and y rounded to 3 decimals.  The result is
\* optional as in the code, which returns None only after an exception.
GetEntityHash(e) ==
    << [type |-> e.type,
        layer |-> e.layer,
        coords |-> IF HasStartEnd(e)
                   THEN <<Round3(e.pts[1][1]), Round3(e.pts[1][2]),
                          Round3(e.pts[2][1]), Round3(e.pts[2][2])>>
                   ELSE <<>>] >>

\* _check_duplicate_vectors: entity_hashes keeps the fingerprints in the
\* order of their first entity and, per fingerprint, the handles in order.
CheckDuplicateVectors(d, st) ==
    LET xs == AllEntities(d)
        hashed == {i \in 1..Len(xs) : Has(GetEntityHash(xs[i].ent))}
        same(i, j) == GetEntityHash(xs[i].ent) = GetEntityHash(xs[j].ent)
        handles(i) ==
            LET F[j \in 0..Len(xs)] ==
                    IF j = 0 THEN <<>>
                    ELSE IF j \in hashed /\ same(i, j)
                         THEN Append(F[j - 1], xs[j].handle) ELSE F[j - 1]
            IN  F[Len(xs)]
        first(i) == i \in hashed /\ \A j \in hashed : j < i => ~same(i, j)
    IN  [st EXCEPT !.errors = @ \o Flatten(
            [i \in 1..Len(xs) |->
                IF first(i) /\ Len(handles(i)) > 1
                THEN <<Report(7, "CRITICAL", handles(i), 7)>> ELSE <<>>], 1)]

\* _check_invisible_layers
CheckInvisibleLayers(d, st) ==
    LET xs == AllEntities(d)
        ls == d.profile.layers
        entity_count(name) ==
            Cardinality({i \in 1..Len(xs) :
                IF HasLayer(xs[i].ent) THEN Get(xs[i].ent.layer) = name ELSE FALSE})
    IN  [st EXCEPT !.errors = @ \o Flatten(
            [k \in 1..Len(ls) |->
                IF (ls[k].is_off \/ ls[k].is_frozen) /\ entity_count(ls[k].name) > 0
                THEN <<Report(6, "CRITICAL", <<ls[k].name>>, 8)>> ELSE <<>>], 1)]

\* _validate_critical_errors
ValidateCriticalErrors(d, st) ==
    LET s1 == ForEach(CriticalChecks, AllEntities(d), 1, st)
    IN  IF s1.fault THEN s1
        ELSE CheckInvisibleLayers(d, CheckDuplicateVectors(d, s1))

\* The body of the loop of _validate_warnings for one entity.
WarningChecks(x, st) ==
    LET bounds == GetEntityBounds(x.ent)
        width == Get(bounds)[3] - Get(bounds)[1]
        height == Get(bounds)[4] - Get(bounds)[2]
        small == IF width < MM(MIN_SIZE_MM) \/ height < MM(MIN_SIZE_MM)
                 THEN <<Report(11, "WARNING", <<x.handle>>, 4)>> ELSE <<>>
        large == IF width > MM(MAX_SIZE_MM) \/ height > MM(MAX_SIZE_MM)
                 THEN <<Report(11, "WARNING", <<x.handle>>, 5)>> ELSE <<>>
    IN  IF Has(bounds)
        THEN [st EXCEPT !.warnings = @ \o small \o large]
        ELSE st

\* _check_reference_layers
CheckReferenceLayers(d, st) ==
    LET xs == AllEntities(d)
    IN  [st EXCEPT !.warnings = @ \o Flatten(
            [i \in 1..Len(xs) |->
                IF HasLayer(xs[i].ent)
                THEN IF ContainsReference(Upper(Get(xs[i].ent.layer)))
                     THEN <<Report(15, "WARNING", <<xs[i].handle>>, 3)>>
                     ELSE <<>>
                ELSE <<>>], 1)]

\* _check_excessive_points
CheckExcessivePoints(d, st) ==
    LET xs == AllEntities(d)
    IN  [st EXCEPT !.warnings = @ \o Flatten(
            [i \in 1..Len(xs) |->
                IF IsPolyline(xs[i].ent) /\ Len(xs[i].ent.pts) > MaxVertexCount
                THEN <<Report(18, "WARNING", <<xs[i].handle>>, 4)>>
                ELSE <<>>], 1)]

\* _validate_warnings
ValidateWarnings(d, st) ==
    CheckExcessivePoints(d,
        CheckReferenceLayers(d, ForEach(WarningChecks, AllEntities(d), 1, st)))

\* _validate_export_errors: a failure of os.path.getsize is swallowed.
ValidateExportErrors(d, st) ==
    IF Has(d.profile.size_mb)
    THEN IF Get(d.profile.size_mb) > MAX_FILE_SIZE_MB
         THEN [st EXCEPT !.export_errors =
                   Append(@, Report(24, "EXPORT_ERROR", <<"FILE">>, 6))]
         ELSE st
    ELSE st

\* The id-25 records of one pair of entities: one per pair of points p1 of
\* the first and p2 of the second with 0 < distance < min_distance_mm.
PairRecords(x1, x2) ==
    LET points1 == GetEntityPoints(x1.ent)
        points2 == GetEntityPoints(x2.ent)
    IN  Flatten([a \in 1..Len(points1) |->
            Flatten([b \in 1..Len(points2) |->
                IF DistanceWithin(points1[a], points2[b], MM(min_distance_mm))
                THEN <<Report(25, "CRITICAL", <<x1.handle, x2.handle>>, 10)>>
                ELSE <<>>], 1)], 1)

\* _check_vector_distances: every pair of vector entities of the modelspace,
\* the first before the second.
CheckVectorDistances(d, st) ==
    LET xs == Modelspace(d)
    IN  [st EXCEPT !.errors = @ \o Flatten(
            [i \in 1..Len(xs) |->
                IF ~IsVectorEntity(xs[i].ent) THEN <<>>
                ELSE Flatten([j \in 1..Len(xs) |->
                        IF j <= i \/ ~IsVectorEntity(xs[j].ent) THEN <<>>
                        ELSE PairRecords(xs[i], xs[j])], 1)], 1)]

\* _check_layer_usage: used_layers.add(entity.dxf.layer) reads the layer of
\* every modelspace entity without a guard; the id-26 record lists the used
\* layers, of which there are none when it is appended.
CheckLayerUsage(d, st) ==
    LET xs == Modelspace(d)
        used_layers == {Get(xs[i].ent.layer) : i \in 1..Len(xs)}
    IN  IF \E i \in 1..Len(xs) : ~HasLayer(xs[i].ent) THEN Raise(st)
        ELSE IF used_layers = {}
             THEN [st EXCEPT !.errors =
                       Append(@, Report(26, "CRITICAL", <<>>, 10))]
             ELSE st

\* The body of the loop of _validate_entities for one modelspace entity.
EntityChecks(x, st) ==
    LET r27 == IF ~HasLayer(x.ent)
               THEN <<Report(27, "CRITICAL", <<x.handle>>, 10)>> ELSE <<>>
        r28 == IF IsVectorEntity(x.ent)
               THEN IF CalculateEntitySize(x.ent) < MM(MinEntitySize)
                    THEN <<Report(28, "WARNING", <<x.handle>>, 5)>> ELSE <<>>
               ELSE <<>>
    IN  State(st.errors \o r27, st.warnings \o r28, st.export_errors, FALSE)

\* _validate_entities
ValidateEntities(d, st) ==
    ForEach(EntityChecks, Modelspace(d), 1, st)

\* _check_dimensions: the extent of the points of the modelspace's vector
\* entities; nothing is checked when there is no point.
CheckDimensions(d, st) ==
    LET xs == Modelspace(d)
        points == UNION {{GetEntityPoints(xs[i].ent)[a] :
                             a \in 1..Len(GetEntityPoints(xs[i].ent))} :
                         i \in {k \in 1..Len(xs) : IsVectorEntity(xs[k].ent)}}
        min_x == CHOOSE v \in {q[1] : q \in points} : \A q \in points : v <= q[1]
        max_x == CHOOSE v \in {q[1] : q \in points} : \A q \in points : v >= q[1]
        min_y == CHOOSE v \in {q[2] : q \in points} : \A q \in points : v <= q[2]
        max_y == CHOOSE v \in {q[2] : q \in points} : \A q \in points : v >= q[2]
        width == max_x - min_x
        height == max_y - min_y
        r29 == IF width > MM(MaxExtent) \/ height > MM(MaxExtent)
               THEN <<Report(29, "WARNING", <<"FILE">>, 5)>> ELSE <<>>
        r30 == IF width < MM(MinExtent) \/ height < MM(MinExtent)
               THEN <<Report(30, "WARNING", <<"FILE">>, 5)>> ELSE <<>>
    IN  IF points = {} THEN st
        ELSE [st EXCEPT !.warnings = @ \o r29 \o r30]

\* -------------------------------------------------- score, summary, advice

RECURSIVE SumSeverity(_, _)
SumSeverity(reports, i) ==
    IF i > Len(reports) THEN 0
    ELSE reports[i].severity_score + SumSeverity(reports, i + 1)

\* The quotient cut to its integer part.
TruncateDiv(n, d) == n \div d

\* round(n / d): the quotient rounded to the nearest integer, halves to even.
RoundDiv(n, d) ==
    LET q == n \div d
        r == n % d
    IN  IF 2 * r > d \/ (2 * r = d /\ q % 2 = 1) THEN q + 1 ELSE q

\* The health percentage without max(0, ...).
HealthUnclamped(errs, warns, exps, total) ==
    LET total_error_points ==
            SumSeverity(errs, 1) * critical_weight
                + SumSeverity(warns, 1) * warning_weight
                + SumSeverity(exps, 1) * export_weight
    IN  IF total = 0 THEN 0
        ELSE 10000 - RoundDiv(total_error_points * 100 * 100, total * 100)

\* _calculate_health_percentage, in hundredths of a percent:
\* round(max(0, 100 - total_error_points / max_possible_errors * 100), 2).
CalculateHealthPercentage(errs, warns, exps, total) ==
    LET critical_points == SumSeverity(errs, 1) * critical_weight
        warning_points == SumSeverity(warns, 1) * warning_weight
        export_points == SumSeverity(exps, 1) * export_weight
        total_error_points == critical_points + warning_points + export_points
        max_possible_errors == total * 100
        lost == RoundDiv(total_error_points * 100 * 100, max_possible_errors)
    IN  IF total = 0 THEN 0
        ELSE Max2(0, 10000 - lost)

HasId(reports, id) == \E i \in 1..Len(reports) : reports[i].error_id = id

\* Advice that repeats the close-polylines message for every id-1 record.
RecommendationsPerRecord(errs, warns) ==
    LET Closing[k \in 0..Len(errs)] ==
            IF k = 0 THEN <<>>
            ELSE IF errs[k].error_id = 1
                 THEN Append(Closing[k - 1],
                             "Cerrar todas las polilineas en capas de corte")
                 ELSE Closing[k - 1]
    IN  (IF errs # <<>>
         THEN <<"Corrija todos los errores criticos antes de proceder al corte">>
         ELSE <<>>)
        \o Closing[Len(errs)]
        \o (IF warns # <<>>
            THEN <<"Revisar las advertencias para optimizar el proceso">>
            ELSE <<>>)
        \o (IF errs = <<>> /\ warns = <<>>
            THEN <<"Archivo listo para corte laser">> ELSE <<>>)

\* Advice without the message for a non-empty Critical collection.
RecommendationsForKnownIds(errs, warns) ==
    (IF HasId(errs, 1)
     THEN <<"Cerrar todas las polilineas en capas de corte">> ELSE <<>>)
    \o (IF HasId(errs, 3)
        THEN <<"Convertir todos los textos a curvas/contornos">> ELSE <<>>)
    \o (IF HasId(errs, 4)
        THEN <<"Usar nombres de capas estandar: CUT, ENGRAVE, MARK">> ELSE <<>>)
    \o (IF HasId(errs, 7) THEN <<"Eliminar vectores duplicados">> ELSE <<>>)
    \o (IF warns # <<>>
        THEN <<"Revisar las advertencias para optimizar el proceso">> ELSE <<>>)
    \o (IF errs = <<>> /\ warns = <<>>
        THEN <<"Archivo listo para corte laser">> ELSE <<>>)

\* _generate_recommendations (the messages without their emoji)
GenerateRecommendations(errs, warns) ==
    (IF errs # <<>>
     THEN <<"Corrija todos los errores criticos antes de proceder al corte">>
     ELSE <<>>)
    \o (IF HasId(errs, 1)
        THEN <<"Cerrar todas las polilineas en capas de corte">> ELSE <<>>)
    \o (IF HasId(errs, 3)
        THEN <<"Convertir todos los textos a curvas/contornos">> ELSE <<>>)
    \o (IF HasId(errs, 4)
        THEN <<"Usar nombres de capas estandar: CUT, ENGRAVE, MARK">> ELSE <<>>)
    \o (IF HasId(errs, 7) THEN <<"Eliminar vectores duplicados">> ELSE <<>>)
    \o (IF warns # <<>>
        THEN <<"Revisar las advertencias para optimizar el proceso">> ELSE <<>>)
    \o (IF errs = <<>> /\ warns = <<>>
        THEN <<"Archivo listo para corte laser">> ELSE <<>>)

\* A summary whose status counts the records of the three collections.
SummaryOfAllRecords(errs, warns, exps, total, document) ==
    [total_entities |-> total,
     critical_errors_count |-> Len(errs),
     warnings_count |-> Len(warns),
     export_errors_count |-> Len(exps),
     layers_found |-> IF Has(document)
                      THEN [k \in 1..Len(Get(document).profile.layers) |->
                               Get(document).profile.layers[k].name]
                      ELSE <<>>,
     dxf_version |-> IF Has(document)
                     THEN <<Get(document).profile.dxfversion>> ELSE <<>>,
     status |-> IF Len(errs) + Len(warns) + Len(exps) = 0 THEN "READY"
                ELSE IF Len(errs) + Len(warns) + Len(exps) < 5
                     THEN "NEEDS_REVIEW" ELSE "CRITICAL"]

\* _generate_summary
GenerateSummary(errs, warns, exps, total, document) ==
    [total_entities |-> total,
     critical_errors_count |-> Len(errs),
     warnings_count |-> Len(warns),
     export_errors_count |-> Len(exps),
     layers_found |-> IF Has(document)
                      THEN [k \in 1..Len(Get(document).profile.layers) |->
                               Get(document).profile.layers[k].name]
                      ELSE <<>>,
     dxf_version |-> IF Has(document)
                     THEN <<Get(document).profile.dxfversion>> ELSE <<>>,
     status |-> IF Len(errs) = 0 THEN "READY"
                ELSE IF Len(errs) < 5 THEN "NEEDS_REVIEW" ELSE "CRITICAL"]

\* ------------------------------------------------------------------- state

VARIABLES
    errors,             \* self.errors
    warnings,           \* self.warnings
    export_errors,      \* self.export_errors
    doc,                \* self.doc: absent (None) or the loaded document
    total_entities,     \* self.total_entities
    pc,                 \* the position of the running call, "idle" between calls
    file,               \* the file_path argument of the current or last call
    via,                \* "method": analyzer.analyze_dxf_file(path);
                        \* "function": the module-level analyze_dxf_file(path)
    health_percentage,  \* local of analyze_dxf_file
    recommendations,    \* local of analyze_dxf_file
    result,             \* what the last call returned to its caller, if anything
    outcome,            \* "none", "running", "returned" or "raised"
    ran,                \* the validators that completed in the current call
    earlier,            \* the result the caller got from the call before, kept
                        \* when that call analysed the same file
    reused              \* whether the analyzer of the current or last call had
                        \* run a call before

vars ==
    <<errors, warnings, export_errors, doc, total_entities, pc, file, via,
      health_percentage, recommendations, result, outcome, ran, earlier,
      reused>>

\* The fields of the analyzer instance as one record.
Self ==
    [errors |-> errors, warnings |-> warnings, export_errors |-> export_errors,
     doc |-> doc, total_entities |-> total_entities]

\* DXFAnalyzer.__init__
NewAnalyzer ==
    [errors |-> <<>>, warnings |-> <<>>, export_errors |-> <<>>,
     doc |-> <<>>, total_entities |-> 0]

\* A reset that leaves the bound document and the entity count.
ResetKeepsDocument(self) ==
    [self EXCEPT !.errors = <<>>, !.warnings = <<>>, !.export_errors = <<>>]

\* A reset that leaves the critical errors.
ResetKeepsErrors(self) ==
    [self EXCEPT !.warnings = <<>>, !.export_errors = <<>>,
                 !.doc = <<>>, !.total_entities = 0]

\* _reset_analysis
ResetAnalysis(self) ==
    [self EXCEPT !.errors = <<>>, !.warnings = <<>>, !.export_errors = <<>>,
                 !.doc = <<>>, !.total_entities = 0]

\* No handler: the exception leaves analyze_dxf_file.
OnExceptionUncaught == "raise"

\* except Exception: every exception raised inside the try block of
\* analyze_dxf_file is handled there.
OnException == "except"

\* The AnalysisResult of the normal path (file_name and analysis_date, which
\* no check reads, are left out).
AnalysisResult(self, health, recs) ==
    [kind |-> "AnalysisResult",
     total_entities |-> self.total_entities,
     health_percentage |-> health,
     critical_errors |-> self.errors,
     warnings |-> self.warnings,
     export_errors |-> self.export_errors,
     summary |-> GenerateSummary(self.errors, self.warnings, self.export_errors,
                                 self.total_entities, self.doc),
     recommendations |-> recs]

\* A load-failure result that keeps the warnings collected so far.
LoadFailureKeepsWarnings(self) ==
    [kind |-> "AnalysisResult",
     total_entities |-> 0,
     health_percentage |-> 0,
     critical_errors |-> <<Report(0, "CRITICAL", <<"FILE">>, 10)>>,
     warnings |-> self.warnings,
     export_errors |-> <<>>,
     summary |-> [status |-> "ERROR"],
     recommendations |-> <<"Verificar integridad del archivo DXF">>]

\* The AnalysisResult built by the except branch.
LoadFailureResult(self) ==
    [kind |-> "AnalysisResult",
     total_entities |-> 0,
     health_percentage |-> 0,
     critical_errors |-> <<Report(0, "CRITICAL", <<"FILE">>, 10)>>,
     warnings |-> <<>>,
     export_errors |-> <<>>,
     summary |-> [status |-> "ERROR"],
     recommendations |-> <<"Verificar integridad del archivo DXF">>]

\* dataclasses.asdict(result): the same fields as a dictionary.
AsDict(r) == [r EXCEPT !.kind = "dict"]

\* What the caller receives: the module-level function converts the result.
Returned(r) == IF via = "function" THEN AsDict(r) ELSE r

Init ==
    /\ errors = <<>>
    /\ warnings = <<>>
    /\ export_errors = <<>>
    /\ doc = <<>>
    /\ total_entities = 0
    /\ pc = "idle"
    /\ file = Unloadable
    /\ via = "method"
    /\ health_percentage = 0
    /\ recommendations = <<>>
    /\ result = <<>>
    /\ outcome = "none"
    /\ ran = <<>>
    /\ earlier = <<>>
    /\ reused = FALSE

\* The entry of analyze_dxf_file on the instance `self` with argument f:
\* the try block starts with _reset_analysis().
Enter(self, f, how, again) ==
    LET fresh == ResetAnalysis(self)
    IN  /\ reused' = again
        /\ errors' = fresh.errors
        /\ warnings' = fresh.warnings
        /\ export_errors' = fresh.export_errors
        /\ doc' = fresh.doc
        /\ total_entities' = fresh.total_entities
        /\ pc' = "load"
        /\ file' = f
        /\ via' = how
        /\ health_percentage' = 0
        /\ recommendations' = <<>>
        /\ earlier' = IF f = file /\ outcome = "returned" THEN result ELSE <<>>
        /\ result' = <<>>
        /\ outcome' = "running"
        /\ ran' = <<>>

\* analyzer = DXFAnalyzer(); analyzer.analyze_dxf_file(f)
AnalyzeFile ==
    /\ pc = "idle" /\ outcome = "none"
    /\ \E f \in Files : Enter(NewAnalyzer, f, "method", FALSE)

\* The module-level analyze_dxf_file(f): a new analyzer for the call.
AnalyzeDxfFile ==
    /\ pc = "idle" /\ outcome = "none"
    /\ \E f \in ReuseFiles : Enter(NewAnalyzer, f, "function", FALSE)

\* analyzer.analyze_dxf_file(f) again on the instance of the last call.
AnalyzeAgain ==
    /\ pc = "idle" /\ outcome # "none" /\ via = "method"
    /\ \E f \in ReuseFiles \cup {file} : Enter(Self, f, "method", TRUE)

\* The file of the last call analysed again by a new analyzer.
AnalyzeOnNewInstance ==
    /\ pc = "idle" /\ outcome # "none"
    /\ Enter(NewAnalyzer, file, "method", FALSE)

\* The caller drops the analyzer and the result of the last call.
Discard ==
    /\ pc = "idle" /\ outcome # "none"
    /\ errors' = <<>>
    /\ warnings' = <<>>
    /\ export_errors' = <<>>
    /\ doc' = <<>>
    /\ total_entities' = 0
    /\ file' = Unloadable
    /\ via' = "method"
    /\ result' = <<>>
    /\ outcome' = "none"
    /\ earlier' = <<>>
    /\ ran' = <<>>
    /\ reused' = FALSE
    /\ UNCHANGED <<pc, health_percentage, recommendations>>

\* self.doc = ezdxf.readfile(file_path)
Load ==
    /\ pc = "load"
    /\ IF file.loadable
       THEN doc' = file.content /\ pc' = "count"
       ELSE doc' = doc /\ pc' = OnException
    /\ UNCHANGED <<errors, warnings, export_errors, total_entities, file, via,
                   health_percentage, recommendations, result, outcome, ran,
                   earlier,
                   reused>>

\* _count_total_entities: the entities of all layouts.
CountTotalEntities(d) == Len(d.msp) + Len(d.psp)

Count ==
    /\ pc = "count"
    /\ total_entities' = CountTotalEntities(Get(doc))
    /\ pc' = "file_structure"
    /\ UNCHANGED <<errors, warnings, export_errors, doc, file, via,
                   health_percentage, recommendations, result, outcome, ran,
                   earlier,
                   reused>>

\* One validator call of the pipeline: it appends to the three collections;
\* an exception leaves what was appended and goes to the except branch.
Validator(name, Op(_, _), next) ==
    /\ pc = name
    /\ LET st == Op(Get(doc), State(errors, warnings, export_errors, FALSE))
       IN  /\ errors' = st.errors
           /\ warnings' = st.warnings
           /\ export_errors' = st.export_errors
           /\ pc' = IF st.fault THEN OnException ELSE next
           /\ ran' = IF st.fault THEN ran ELSE Append(ran, name)
    /\ UNCHANGED <<doc, total_entities, file, via, health_percentage,
                   recommendations, result, outcome, earlier,
                   reused>>

FileStructureStep ==
    Validator("file_structure", ValidateFileStructure, "critical_errors")

CriticalErrorsStep ==
    Validator("critical_errors", ValidateCriticalErrors, "warnings")

WarningsStep ==
    Validator("warnings", ValidateWarnings, "export_errors")

\* The health computed right after the export check, before the last four
\* validators.
ExportErrorsThenHealth ==
    Validator("export_errors", ValidateExportErrors, "health")

ExportErrorsStep ==
    Validator("export_errors", ValidateExportErrors, "vector_distances")

VectorDistancesStep ==
    Validator("vector_distances", CheckVectorDistances, "layer_usage")

LayerUsageStep ==
    Validator("layer_usage", CheckLayerUsage, "entities")

EntitiesStep ==
    Validator("entities", ValidateEntities, "dimensions")

DimensionsStep ==
    Validator("dimensions", CheckDimensions, "health")

\* health_percentage = self._calculate_health_percentage()
HealthStep ==
    /\ pc = "health"
    /\ health_percentage' =
           CalculateHealthPercentage(errors, warnings, export_errors, total_entities)
    /\ pc' = "recommendations"
    /\ UNCHANGED <<errors, warnings, export_errors, doc, total_entities, file,
                   via, recommendations, result, outcome, ran, earlier,
                   reused>>

\* recommendations = self._generate_recommendations()
RecommendationsStep ==
    /\ pc = "recommendations"
    /\ recommendations' = GenerateRecommendations(errors, warnings)
    /\ pc' = "assemble"
    /\ UNCHANGED <<errors, warnings, export_errors, doc, total_entities, file,
                   via, health_percentage, result, outcome, ran, earlier,
                   reused>>

\* result = AnalysisResult(...); return result
Assemble ==
    /\ pc = "assemble"
    /\ result' = <<Returned(AnalysisResult(Self, health_percentage, recommendations))>>
    /\ outcome' = "returned"
    /\ pc' = "idle"
    /\ UNCHANGED <<errors, warnings, export_errors, doc, total_entities, file,
                   via, health_percentage, recommendations, ran, earlier,
                   reused>>

\* The except branch returns the load-failure result; an exception that no
\* handler takes leaves the call and reaches the caller.
Except ==
    /\ pc \in {"except", "raise"}
    /\ IF pc = "except"
       THEN result' = <<Returned(LoadFailureResult(Self))>> /\ outcome' = "returned"
       ELSE result' = <<>> /\ outcome' = "raised"
    /\ pc' = "idle"
    /\ UNCHANGED <<errors, warnings, export_errors, doc, total_entities, file,
                   via, health_percentage, recommendations, ran, earlier,
                   reused>>

Next ==
    \/ AnalyzeFile
    \/ AnalyzeDxfFile
    \/ AnalyzeAgain
    \/ AnalyzeOnNewInstance
    \/ Discard
    \/ Load
    \/ Count
    \/ FileStructureStep
    \/ CriticalErrorsStep
    \/ WarningsStep
    \/ ExportErrorsStep
    \/ VectorDistancesStep
    \/ LayerUsageStep
    \/ EntitiesStep
    \/ DimensionsStep
    \/ HealthStep
    \/ RecommendationsStep
    \/ Assemble
    \/ Except

Spec == Init /\ [][Next]_vars

\* analyzer = DXFAnalyzer(); analyzer.analyze_dxf_file(f) on a document of
\* polylines.
AnalyzePolylineFile ==
    /\ pc = "idle" /\ outcome = "none"
    /\ \E f \in PolylineFiles : Enter(NewAnalyzer, f, "method", FALSE)

\* One call after another, each on a new analyzer, on documents of polylines.
NextPolylines ==
    \/ AnalyzePolylineFile
    \/ Discard
    \/ Load
    \/ Count
    \/ FileStructureStep
    \/ CriticalErrorsStep
    \/ WarningsStep
    \/ ExportErrorsStep
    \/ VectorDistancesStep
    \/ LayerUsageStep
    \/ EntitiesStep
    \/ DimensionsStep
    \/ HealthStep
    \/ RecommendationsStep
    \/ Assemble
    \/ Except

SpecPolylines == Init /\ [][NextPolylines]_vars

\* ------------------------------------------------------------------ claims

\* The last call has returned to its caller.
Finished == pc = "idle" /\ outcome = "returned"

\* The validator `name` has completed in the current (or last) call.
Completed(name) == \E k \in 1..Len(ran) : ran[k] = name

\* The records of the three collections of a result.
RecordsOf(r) == r.critical_errors \o r.warnings \o r.export_errors

IsLoadFailureRecord(rep) ==
    /\ rep.error_id = 0
    /\ rep.severity_score = 10
    /\ rep.affected_entities = <<"FILE">>

WellFormed(r) ==
    /\ r.kind \in {"AnalysisResult", "dict"}
    /\ r.total_entities \in Nat
    /\ r.health_percentage \in Int
    /\ \A k \in 1..Len(r.critical_errors) :
           r.critical_errors[k].error_type = "CRITICAL"
    /\ \A k \in 1..Len(r.warnings) : r.warnings[k].error_type = "WARNING"
    /\ \A k \in 1..Len(r.export_errors) :
           r.export_errors[k].error_type = "EXPORT_ERROR"
    /\ \A k \in 1..Len(RecordsOf(r)) :
           /\ RecordsOf(r)[k].error_id \in Nat
           /\ RecordsOf(r)[k].severity_score \in Nat
    /\ "status" \in DOMAIN r.summary
    /\ Len(r.recommendations) >= 0

C3_InvalidFileRaises ==
    (pc = "idle" /\ outcome # "none" /\ via = "function" /\ ~file.loadable)
        => outcome = "raised"


\* The validator pipeline run on document d from the initial state: the
\* eight validators in order, stopping at the first that raises.
RECURSIVE RunAll(_, _, _, _)
RunAll(d, st, names, i) ==
    IF i > Len(names) \/ st.fault THEN st
    ELSE RunAll(d,
                CASE names[i] = "file_structure" -> ValidateFileStructure(d, st)
                  [] names[i] = "critical_errors" -> ValidateCriticalErrors(d, st)
                  [] names[i] = "warnings" -> ValidateWarnings(d, st)
                  [] names[i] = "export_errors" -> ValidateExportErrors(d, st)
                  [] names[i] = "vector_distances" -> CheckVectorDistances(d, st)
                  [] names[i] = "layer_usage" -> CheckLayerUsage(d, st)
                  [] names[i] = "entities" -> ValidateEntities(d, st)
                  [] names[i] = "dimensions" -> CheckDimensions(d, st),
                names, i + 1)

Pipeline ==
    <<"file_structure", "critical_errors", "warnings", "export_errors",
      "vector_distances", "layer_usage", "entities", "dimensions">>

FromScratch(d) == RunAll(d, State(<<>>, <<>>, <<>>, FALSE), Pipeline, 1)

\* C4: each call starts from the initial state (three empty collections,
\* entity count 0, no bound document), also after a call that failed
\* part-way, so the diagnostics and the entity count of a normal result are
\* those of the call's own document analysed from the initial state.
C4_EachCallStartsFresh ==
    /\ pc = "load" =>
           /\ errors = <<>>
           /\ warnings = <<>>
           /\ export_errors = <<>>
           /\ total_entities = 0
           /\ doc = <<>>
    /\ (Finished /\ Len(ran) = Len(Pipeline)) =>
           LET d == Get(file.content)
           IN  /\ Get(result).critical_errors = FromScratch(d).errors
               /\ Get(result).warnings = FromScratch(d).warnings
               /\ Get(result).export_errors = FromScratch(d).export_errors
               /\ Get(result).total_entities = Len(d.msp) + Len(d.psp)

\* A reused analyzer right after the reset of a call that follows a call which
\* failed part-way on a file that loads (its result was the load-failure one).
C4_Witness ==
    /\ pc = "load"
    /\ reused
    /\ file.loadable
    /\ Has(earlier)
    /\ HasId(Get(earlier).critical_errors, 0)

\* C5: the health percentage of every returned result is between 0 and 100.
C5_HealthInRange ==
    Finished =>
        /\ Get(result).health_percentage >= 0
        /\ Get(result).health_percentage <= 10000

\* A normal result whose error points exceed the maximum: health is cut at 0.
C5_Witness ==
    /\ Finished
    /\ Len(ran) = Len(Pipeline)
    /\ Get(result).total_entities > 0
    /\ Get(result).health_percentage = 0
    /\ SumSeverity(Get(result).critical_errors, 1) * critical_weight
           > Get(result).total_entities * 100

\* C6: every record of a returned result has at least one affected entity
\* and a severity from 1 to 10.
C6_RecordsWellFormed ==
    Finished =>
        \A k \in 1..Len(RecordsOf(Get(result))) :
            /\ RecordsOf(Get(result))[k].affected_entities # <<>>
            /\ RecordsOf(Get(result))[k].severity_score \in 1..10

\* C7: a fault raised while a validator processes one entity skips only that
\* entity: all eight validators complete and the result of a file that loads
\* is a normal result, not the load-failure result.
C7_FaultSkipsOnlyTheEntity ==
    (Finished /\ file.loadable) =>
        /\ Len(ran) = Len(Pipeline)
        /\ ~HasId(Get(result).critical_errors, 0)

\* C8: analysing the same document again, on the same analyzer or on a new
\* one, gives the same health value and the same three collections, record
\* for record in the same order.
C8_SameDocumentSameResult ==
    (Finished /\ Has(earlier)) =>
        /\ Get(result).health_percentage = Get(earlier).health_percentage
        /\ Get(result).critical_errors = Get(earlier).critical_errors
        /\ Get(result).warnings = Get(earlier).warnings
        /\ Get(result).export_errors = Get(earlier).export_errors

\* The second normal result of a document on the same analyzer, with several
\* records in two collections.
C8_Witness ==
    /\ Finished
    /\ reused
    /\ Has(earlier)
    /\ Len(ran) = Len(Pipeline)
    /\ Len(Get(result).critical_errors) >= 2
    /\ Len(Get(result).warnings) >= 2

\* 0 < distance(p1, p2) < minDistance, as the claim states it.
C9_TooClose(p1, p2) ==
    LET dx == Abs(p2[1] - p1[1])
        dy == Abs(p2[2] - p1[2])
        dz == Abs(p2[3] - p1[3])
    IN  /\ dx > 0 \/ dy > 0 \/ dz > 0
        /\ Max2(dx, Max2(dy, dz)) < MM(min_distance_mm)
        /\ dx * dx + dy * dy + dz * dz < MM(min_distance_mm) * MM(min_distance_mm)

\* C9: once the distance check has run, the id-25 records are Critical with
\* severity 10 and name two vector entities of the modelspace, the first
\* before the second; for every such pair there are exactly as many id-25
\* records naming the two handles as there are pairs of points p1, p2 with
\* 0 < distance(p1, p2) < minDistance, so a record exists if and only if
\* some pair of points is that close, and a pair of points at distance 0 or
\* at minDistance or more gives none.
C9_DistanceRecords ==
    Completed("vector_distances") =>
        LET xs == Modelspace(Get(doc))
            vector == {i \in 1..Len(xs) :
                          xs[i].ent.type \in {"LINE", "LWPOLYLINE", "POLYLINE"}}
            close(i, j) ==
                {c \in (1..Len(xs[i].ent.pts)) \X (1..Len(xs[j].ent.pts)) :
                    C9_TooClose(xs[i].ent.pts[c[1]], xs[j].ent.pts[c[2]])}
            naming(i, j) ==
                {k \in 1..Len(errors) :
                    /\ errors[k].error_id = 25
                    /\ errors[k].affected_entities = <<xs[i].handle, xs[j].handle>>}
        IN  /\ \A i \in vector : \A j \in vector :
                   i < j => Cardinality(naming(i, j)) = Cardinality(close(i, j))
            /\ \A k \in 1..Len(errors) :
                   errors[k].error_id = 25 =>
                       /\ errors[k].error_type = "CRITICAL"
                       /\ errors[k].severity_score = 10
                       /\ \E i \in vector : \E j \in vector :
                              i < j /\ k \in naming(i, j)

\* Two modelspace lines with one pair of points closer than minDistance and
\* another pair of points that coincide: one id-25 record names them.
C9_Witness ==
    /\ Completed("vector_distances")
    /\ Len(Get(doc).msp) = 2
    /\ Get(doc).msp[1] = LineCut
    /\ Get(doc).msp[2] = LineCutNear
    /\ Cardinality({k \in 1..Len(errors) : errors[k].error_id = 25}) = 1

Lists(rep, h) ==
    \E a \in 1..Len(rep.affected_entities) : rep.affected_entities[a] = h

\* C11: an entity whose bounding box is undetermined (no native bounding box,
\* no start/end pair) is listed by no record with id 5, 11, 28, 29 or 30 of
\* a returned result.
C11_NoSizeRecordWithoutBounds ==
    (Finished /\ file.loadable) =>
        LET xs == AllEntities(Get(file.content))
            recs == RecordsOf(Get(result))
        IN  \A i \in 1..Len(xs) :
                GetEntityBounds(xs[i].ent) = <<>> =>
                    \A k \in 1..Len(recs) :
                        recs[k].error_id \in {5, 11, 28, 29, 30}
                            => ~Lists(recs[k], xs[i].handle)

\* C12: a document that loads and has no entity gives total_entities = 0, an
\* empty critical_errors list and health 0.0.
C12_EmptyDocument ==
    (Finished /\ file.loadable
        /\ Get(file.content).msp = <<>> /\ Get(file.content).psp = <<>>) =>
        /\ Get(result).total_entities = 0
        /\ Get(result).critical_errors = <<>>
        /\ Get(result).health_percentage = 0

\* C13: when the only entity of a document, in the primary drawing space, has
\* no layer attribute, critical_errors of the result holds a record with
\* id 27, or a record with id 2 that names the entity's handle.
C13_EntityWithoutLayer ==
    (Finished /\ file.loadable
        /\ Len(Get(file.content).msp) = 1 /\ Get(file.content).psp = <<>>
        /\ ~HasLayer(Get(file.content).msp[1])) =>
        \E k \in 1..Len(Get(result).critical_errors) :
            LET rep == Get(result).critical_errors[k]
            IN  \/ rep.error_id = 27
                \/ rep.error_id = 2 /\ Lists(rep, HandleNames[1])

\* The layer names that are CUT or ENGRAVE when letter case is ignored, among
\* the layer names of the model.
C14_CutOrEngrave(name) == name \in {"CUT", "cut", "ENGRAVE", "Engrave"}

\* An entity for which the open-vector record is due.
C14_OpenOnCutLayer(e) ==
    /\ e.type \in {"LWPOLYLINE", "POLYLINE"}
    /\ ~e.closed
    /\ e.layer # <<>>
    /\ C14_CutOrEngrave(e.layer[1])

\* C14: once the critical checks have run, an entity is named by an id-1
\* record if and only if it is a polyline that is not closed and whose layer,
\* letter case ignored, is CUT or ENGRAVE; it is then named by exactly one,
\* Critical, of severity 10 and listing only that handle.  A document whose
\* only entity is such a polyline is returned exactly one id-1 record.
C14_OpenPolylines ==
    /\ Completed("critical_errors") =>
           LET xs == AllEntities(Get(doc))
               one == {k \in 1..Len(errors) : errors[k].error_id = 1}
           IN  /\ \A i \in 1..Len(xs) :
                      Cardinality({k \in one : Lists(errors[k], xs[i].handle)})
                          = IF C14_OpenOnCutLayer(xs[i].ent) THEN 1 ELSE 0
               /\ \A k \in one :
                      /\ errors[k].error_type = "CRITICAL"
                      /\ errors[k].severity_score = 10
                      /\ \E i \in 1..Len(xs) :
                             errors[k].affected_entities = <<xs[i].handle>>
    /\ (Finished /\ file.loadable
           /\ Len(Get(file.content).msp) = 1 /\ Get(file.content).psp = <<>>
           /\ C14_OpenOnCutLayer(Get(file.content).msp[1])) =>
           LET recs == Get(result).critical_errors
               one == {k \in 1..Len(recs) : recs[k].error_id = 1}
           IN  /\ Cardinality(one) = 1
               /\ \A k \in one :
                      /\ recs[k].severity_score = 10
                      /\ recs[k].affected_entities = <<HandleNames[1]>>

\* The result of the document whose only entity is an open polyline on layer
\* "cut" has been returned with an id-1 record.
C14_Witness ==
    /\ Finished
    /\ Get(file.content).msp = <<PolyOpenCut>>
    /\ Get(file.content).psp = <<>>
    /\ HasId(Get(result).critical_errors, 1)

\* 10 * sum of Critical severities + 3 * sum of Warning severities
\* + 5 * sum of ExportError severities, over the collections of result r.
C15_Points(r) ==
    LET Sum[k \in 0..Len(RecordsOf(r))] ==
            IF k = 0 THEN 0
            ELSE Sum[k - 1] + RecordsOf(r)[k].severity_score
                    * (CASE RecordsOf(r)[k].error_type = "CRITICAL" -> 10
                         [] RecordsOf(r)[k].error_type = "WARNING" -> 3
                         [] OTHER -> 5)
    IN  Sum[Len(RecordsOf(r))]

\* C15: the health of a returned result is 0.0 when total_entities is 0, and
\* otherwise max(0, 100 - 100 * points / (total_entities * 100)) rounded to
\* two decimals: in hundredths, 0 when the points reach 100 per entity, else
\* the integer nearest to 10000 - 100 * points / total_entities.
C15_HealthFormula ==
    Finished =>
        LET r == Get(result)
            n == r.total_entities
            h == r.health_percentage
            exact == 10000 * n - 100 * C15_Points(r)
        IN  IF n = 0 THEN h = 0
            ELSE IF exact <= 0 THEN h = 0
            ELSE /\ 2 * (h * n - exact) <= n
                 /\ 2 * (exact - h * n) <= n

\* A returned normal result whose health is positive and is not a whole
\* number of hundredths before rounding.
C15_Witness ==
    /\ Finished
    /\ Len(ran) = Len(Pipeline)
    /\ Get(result).health_percentage > 0
    /\ (100 * C15_Points(Get(result))) % Get(result).total_entities = 2

\* The seven messages in their fixed order.
C16_Messages ==
    <<"Corrija todos los errores criticos antes de proceder al corte",
      "Cerrar todas las polilineas en capas de corte",
      "Convertir todos los textos a curvas/contornos",
      "Usar nombres de capas estandar: CUT, ENGRAVE, MARK",
      "Eliminar vectores duplicados",
      "Revisar las advertencias para optimizar el proceso",
      "Archivo listo para corte laser">>

\* The presence pattern of result r: which of the seven conditions hold.
C16_Pattern(r) ==
    LET has(id) == \E k \in 1..Len(r.critical_errors) :
                       r.critical_errors[k].error_id = id
    IN  <<r.critical_errors # <<>>, has(1), has(3), has(4), has(7),
          r.warnings # <<>>,
          r.critical_errors = <<>> /\ r.warnings = <<>> >>

\* The messages selected by a pattern, in the fixed order.
C16_Selected(pattern) ==
    LET Pick[k \in 0..7] ==
            IF k = 0 THEN <<>>
            ELSE IF pattern[k] THEN Append(Pick[k - 1], C16_Messages[k])
                 ELSE Pick[k - 1]
    IN  Pick[7]

\* C16: the recommendations of a normal result are the messages selected by
\* the presence pattern of its Critical and Warning collections, in the fixed
\* order, each at most once; they depend on nothing but the pattern.
C16_Recommendations ==
    (Finished /\ Len(ran) = Len(Pipeline)) =>
        LET recs == Get(result).recommendations
        IN  /\ recs = C16_Selected(C16_Pattern(Get(result)))
            /\ \A a, b \in 1..Len(recs) : a # b => recs[a] # recs[b]

\* A normal result with two id-1 records.
C16_Witness ==
    /\ Finished
    /\ Len(ran) = Len(Pipeline)
    /\ Cardinality({k \in 1..Len(Get(result).critical_errors) :
                       Get(result).critical_errors[k].error_id = 1}) = 2

\* C17: the summary of every returned result has status READY, NEEDS_REVIEW
\* or CRITICAL.
C17_SummaryStatus ==
    Finished => Get(result).summary.status \in {"READY", "NEEDS_REVIEW", "CRITICAL"}

\* ------------------------------------------------- scoring of large drawings

\* Line i of a drawing of lines: on layer CUT, 6 mm wide and 8 mm high, on a
\* grid with 15 mm between neighbours that stays within 1000 mm of the
\* origin, with line weight lw.  No validator reports such a line unless it
\* has a line weight (id 9).
GridLine(i, lw) ==
    LET x == MM(15) * ((i - 1) % 130) - MM(1000)
        y == MM(15) * ((i - 1) \div 130) - MM(1000)
    IN  Ent("LINE", <<"CUT">>, FALSE,
            <<Pt(x, y, 0), Pt(x + MM(6), y + MM(8), 0)>>, lw, <<>>)

\* The drawing of n such lines of which the first m have a line weight.
GridDocument(n, m) ==
    [profile |-> PlainProfile,
     msp |-> [i \in 1..n |-> GridLine(i, IF i <= m THEN 25 ELSE 0)],
     psp |-> <<>>]

\* The analysis state after the eight validators have run on GridDocument(n, m):
\* computed by the validators for a small drawing; for a large one, the
\* records they append for it: one id-9 record per line with a line weight.
GridState(n, m) ==
    IF n <= MaxEntities THEN FromScratch(GridDocument(n, m))
    ELSE State([k \in 1..m |-> Report(9, "CRITICAL", <<HandleNames[k]>>, 6)],
               <<>>, <<>>, FALSE)

GridSizes == (1..MaxEntities) \cup {LargeCount - 3, LargeCount}

\* A call at line 93, the validators done, on a drawing of lines.
InitScoring ==
    \E n \in GridSizes : \E m \in 0..MaxWeighted :
        /\ m <= n
        /\ errors = GridState(n, m).errors
        /\ warnings = GridState(n, m).warnings
        /\ export_errors = GridState(n, m).export_errors
        /\ doc = <<GridDocument(n, m)>>
        /\ total_entities = CountTotalEntities(GridDocument(n, m))
        /\ pc = "health"
        /\ file = Loadable(GridDocument(n, m))
        /\ via \in {"method", "function"}
        /\ health_percentage = 0
        /\ recommendations = <<>>
        /\ result = <<>>
        /\ outcome = "running"
        /\ ran = Pipeline
        /\ earlier = <<>>
        /\ reused = FALSE

NextScoring ==
    \/ HealthStep
    \/ RecommendationsStep
    \/ Assemble

SpecScoring == InitScoring /\ [][NextScoring]_vars

\* C18 as stated: a returned result with at least one critical error has a
\* health percentage strictly below 100 and a non-empty recommendation list.
C18_CriticalLowersHealth ==
    (Finished /\ Get(result).critical_errors # <<>>) =>
        /\ Get(result).health_percentage < 10000
        /\ Get(result).recommendations # <<>>

\* C18, amended: a returned result with at least one critical error has a
\* non-empty recommendation list and a health percentage of at most 100,
\* strictly below 100 when the result counts fewer than 12000 entities (more
\* exactly, when 200 times its weighted error points exceed the count).
C18_CriticalLowersHealthOfSmallDrawings ==
    (Finished /\ Get(result).critical_errors # <<>>) =>
        LET r == Get(result)
        IN  /\ r.recommendations # <<>>
            /\ r.health_percentage <= 10000
            /\ r.total_entities < 12000 => r.health_percentage < 10000
            /\ 200 * C15_Points(r) > r.total_entities
                   => r.health_percentage < 10000

\* A returned result of a drawing of nearly 12000 lines with one critical
\* error: health 99.99.
C18_Witness ==
    /\ Finished
    /\ Get(result).total_entities = LargeCount - 3
    /\ Len(Get(result).critical_errors) = 1
    /\ Get(result).health_percentage = 9999
    /\ Get(result).recommendations # <<>>

\* ---------------------------------------------------------- concurrent calls

\* Two calls of the module-level analyze_dxf_file run at the same time.  Under
\* SpecConcurrent every variable holds one value per call (pc, file,
\* health_percentage, recommendations, result, outcome, ran) or one value per
\* analyzer instance (errors, warnings, export_errors, doc, total_entities).
Calls == {1, 2}

\* One analyzer shared by all calls, kept at module level.
ModuleLevelAnalyzer(i) == 1

\* analyzer = DXFAnalyzer(): the instance call i works on is its own.
AnalyzerOfCall(i) == i

\* One step of a call with local state c on the analyzer instance self: the
\* reset, the load, the count, one validator, the health, the advice, the
\* return, or the except branch.  A step that reads self.doc while it is None
\* raises.
CallStep(c, self) ==
    LET st == RunAll(Get(self.doc),
                     State(self.errors, self.warnings, self.export_errors, FALSE),
                     <<c.pc>>, 1)
        j == CHOOSE k \in 1..Len(Pipeline) : Pipeline[k] = c.pc
    IN  CASE c.pc = "start" ->
               [call |-> [c EXCEPT !.pc = "load"], self |-> ResetAnalysis(self)]
          [] c.pc = "load" ->
               IF c.file.loadable
               THEN [call |-> [c EXCEPT !.pc = "count"],
                     self |-> [self EXCEPT !.doc = c.file.content]]
               ELSE [call |-> [c EXCEPT !.pc = OnException], self |-> self]
          [] c.pc \in {"except", "raise"} ->
               [call |-> [c EXCEPT !.pc = "idle",
                                   !.result = IF c.pc = "except"
                                              THEN <<AsDict(LoadFailureResult(self))>>
                                              ELSE <<>>,
                                   !.outcome = IF c.pc = "except"
                                               THEN "returned" ELSE "raised"],
                self |-> self]
          [] c.pc = "assemble" ->
               [call |-> [c EXCEPT !.pc = "idle",
                                   !.result = <<AsDict(AnalysisResult(
                                       self, c.health_percentage,
                                       c.recommendations))>>,
                                   !.outcome = "returned"],
                self |-> self]
          [] c.pc = "health" ->
               [call |-> [c EXCEPT !.pc = "recommendations",
                                   !.health_percentage =
                                       CalculateHealthPercentage(
                                           self.errors, self.warnings,
                                           self.export_errors, self.total_entities)],
                self |-> self]
          [] c.pc = "recommendations" ->
               [call |-> [c EXCEPT !.pc = "assemble",
                                   !.recommendations =
                                       GenerateRecommendations(self.errors,
                                                               self.warnings)],
                self |-> self]
          [] c.pc \notin {"start", "load", "except", "raise", "assemble",
                          "health", "recommendations"} /\ ~Has(self.doc) ->
               [call |-> [c EXCEPT !.pc = OnException], self |-> self]
          [] c.pc = "count" /\ Has(self.doc) ->
               [call |-> [c EXCEPT !.pc = "file_structure"],
                self |-> [self EXCEPT !.total_entities =
                                          CountTotalEntities(Get(self.doc))]]
          [] OTHER ->
               [call |-> [c EXCEPT !.pc = IF st.fault THEN OnException
                                          ELSE IF j < Len(Pipeline)
                                               THEN Pipeline[j + 1] ELSE "health",
                                   !.ran = IF st.fault THEN @ ELSE Append(@, c.pc)],
                self |-> [self EXCEPT !.errors = st.errors,
                                      !.warnings = st.warnings,
                                      !.export_errors = st.export_errors]]

\* The local state of a call of analyze_dxf_file(f) at its start.
StartOfCall(f) ==
    [pc |-> "start", file |-> f, health_percentage |-> 0,
     recommendations |-> <<>>, result |-> <<>>, outcome |-> "running",
     ran |-> <<>>]

\* The files of the first call and those of the second.
ConcurrentFirstFiles ==
    {Loadable(d) : d \in DocsOf(PlainProfile, MaxConcurrentEntities)}
        \cup {Unloadable}

ConcurrentSecondFiles ==
    {Unloadable,
     Loadable([profile |-> PlainProfile, msp |-> <<PolyOpenCut>>, psp |-> <<>>]),
     Loadable([profile |-> PlainProfile, msp |-> <<LineCut, LineCutNear>>,
               psp |-> <<>>])}

InitConcurrent ==
    /\ errors = [k \in Calls |-> NewAnalyzer.errors]
    /\ warnings = [k \in Calls |-> NewAnalyzer.warnings]
    /\ export_errors = [k \in Calls |-> NewAnalyzer.export_errors]
    /\ doc = [k \in Calls |-> NewAnalyzer.doc]
    /\ total_entities = [k \in Calls |-> NewAnalyzer.total_entities]
    /\ \E f1 \in ConcurrentFirstFiles : \E f2 \in ConcurrentSecondFiles :
           file = [i \in Calls |-> IF i = 1 THEN f1 ELSE f2]
    /\ pc = [i \in Calls |-> "start"]
    /\ health_percentage = [i \in Calls |-> 0]
    /\ recommendations = [i \in Calls |-> <<>>]
    /\ result = [i \in Calls |-> <<>>]
    /\ outcome = [i \in Calls |-> "running"]
    /\ ran = [i \in Calls |-> <<>>]
    /\ via = "function"
    /\ earlier = <<>>
    /\ reused = FALSE

\* Call i takes its next step, on its analyzer.
ConcurrentStep(i) ==
    /\ pc[i] # "idle"
    /\ LET k == AnalyzerOfCall(i)
           c == [pc |-> pc[i], file |-> file[i],
                 health_percentage |-> health_percentage[i],
                 recommendations |-> recommendations[i], result |-> result[i],
                 outcome |-> outcome[i], ran |-> ran[i]]
           self == [errors |-> errors[k], warnings |-> warnings[k],
                    export_errors |-> export_errors[k], doc |-> doc[k],
                    total_entities |-> total_entities[k]]
           n == CallStep(c, self)
       IN  /\ errors' = [errors EXCEPT ![k] = n.self.errors]
           /\ warnings' = [warnings EXCEPT ![k] = n.self.warnings]
           /\ export_errors' = [export_errors EXCEPT ![k] = n.self.export_errors]
           /\ doc' = [doc EXCEPT ![k] = n.self.doc]
           /\ total_entities' = [total_entities EXCEPT ![k] = n.self.total_entities]
           /\ pc' = [pc EXCEPT ![i] = n.call.pc]
           /\ health_percentage' =
                  [health_percentage EXCEPT ![i] = n.call.health_percentage]
           /\ recommendations' =
                  [recommendations EXCEPT ![i] = n.call.recommendations]
           /\ result' = [result EXCEPT ![i] = n.call.result]
           /\ outcome' = [outcome EXCEPT ![i] = n.call.outcome]
           /\ ran' = [ran EXCEPT ![i] = n.call.ran]
    /\ UNCHANGED <<file, via, earlier, reused>>

FirstCallSteps == ConcurrentStep(1)

SecondCallSteps == ConcurrentStep(2)

NextConcurrent ==
    \/ FirstCallSteps
    \/ SecondCallSteps

SpecConcurrent == InitConcurrent /\ [][NextConcurrent]_vars

\* The call of analyze_dxf_file(f) run alone to its end on a new analyzer.
RECURSIVE RunAlone(_, _)
RunAlone(c, self) ==
    IF c.pc = "idle" THEN c
    ELSE RunAlone(CallStep(c, self).call, CallStep(c, self).self)

\* C19: under every interleaving of the steps of two concurrent calls of the
\* module-level analyze_dxf_file, each call returns the result that the same
\* call returns when run alone: no call sees the collections, the document
\* or the entity count of the other.
C19_ConcurrentCallsIndependent ==
    \A i \in Calls :
        pc[i] = "idle" =>
            /\ outcome[i] = "returned"
            /\ result[i] = RunAlone(StartOfCall(file[i]), NewAnalyzer).result

\* The first call has returned a normal result while the second, on another
\* document, has got as far as the distance check with records of its own.
C19_Witness ==
    /\ pc[1] = "idle"
    /\ Len(ran[1]) = Len(Pipeline)
    /\ pc[2] = "vector_distances"
    /\ errors[1] # <<>>
    /\ errors[2] # <<>>
    /\ errors[1] # errors[2]

\* s is an initial part of t.
IsPrefix(s, t) ==
    /\ Len(s) <= Len(t)
    /\ \A k \in 1..Len(s) : s[k] = t[k]

\* C20: during a run every step leaves the records already in the three
\* collections in place and unchanged, adding records only at the end, and
\* the collections of the run are initial parts of the collections of the
\* result the run returns.
C20_AppendOnly ==
    [][/\ pc # "idle" =>
              /\ IsPrefix(errors, errors')
              /\ IsPrefix(warnings, warnings')
              /\ IsPrefix(export_errors, export_errors')
       /\ (pc # "idle" /\ pc' = "idle" /\ outcome' = "returned") =>
              /\ IsPrefix(errors', Get(result').critical_errors)
              /\ IsPrefix(warnings', Get(result').warnings)
              /\ IsPrefix(export_errors', Get(result').export_errors)]_vars

\* C21: the health and the recommendations are computed only after all eight
\* validators have completed, and those of a result of the normal path are
\* the ones computed from the collections the result returns, the records of
\* ids 25 to 30 included.
C21_ScoredAfterAllValidators ==
    /\ pc \in {"health", "recommendations", "assemble"} => ran = Pipeline
    /\ (Finished /\ Get(result).summary.status # "ERROR") =>
           LET r == Get(result)
           IN  /\ ran = Pipeline
               /\ r.health_percentage =
                      CalculateHealthPercentage(r.critical_errors, r.warnings,
                                                r.export_errors, r.total_entities)
               /\ r.recommendations =
                      GenerateRecommendations(r.critical_errors, r.warnings)

\* A returned result of the normal path with a record of the last four
\* validators, which its health counts.
C21_Witness ==
    /\ Finished
    /\ Get(result).summary.status # "ERROR"
    /\ \E k \in 1..Len(Get(result).warnings) :
           Get(result).warnings[k].error_id \in 25..30
    /\ Get(result).health_percentage > 0
    /\ Get(result).health_percentage <
           CalculateHealthPercentage(Get(result).critical_errors, <<>>,
                                     Get(result).export_errors,
                                     Get(result).total_entities)

\* C22: an entity without start and end points gets no fingerprint and is
\* never listed in an id-7 duplicate record, even when another entity has
\* the same type and the same layer.  (A fingerprint shows only through the
\* id-7 records, so the formula is about the records.)
C22_NoEndpointsNoDuplicate ==
    Completed("critical_errors") =>
        LET xs == AllEntities(Get(doc))
        IN  \A i \in 1..Len(xs) :
                ~HasStartEnd(xs[i].ent) =>
                    \A k \in 1..Len(errors) :
                        errors[k].error_id = 7 => ~Lists(errors[k], xs[i].handle)

\* ------------------------------------------- results held across later calls

\* The three collections are list objects, and a result of the normal path
\* holds the very lists the analyzer appended to (lines 105-107).  In
\* SpecSameInstance errors, warnings and export_errors each hold the list
\* objects created so far (heap) and the one the attribute of the analyzer is
\* bound to (ref); result holds, in order, every result the caller received
\* from the one analyzer, its collections as references into the heaps.

\* The number of calls made on the one analyzer.
MaxCalls == 3

\* self.errors.clear(): the bound list emptied where it is.
ClearedList(h) == [h EXCEPT !.heap[h.ref] = <<>>]

\* self.errors = []: the attribute is bound to a new, empty list.
NewList(h) == [ref |-> Len(h.heap) + 1, heap |-> Append(h.heap, <<>>)]

\* self.errors.append(...): the bound list now reads v.
Store(h, v) == [h EXCEPT !.heap[h.ref] = v]

\* The list an attribute is bound to.
ListOf(h) == h.heap[h.ref]

\* The analyzer as the validators read it.
SelfOfLists ==
    [errors |-> ListOf(errors), warnings |-> ListOf(warnings),
     export_errors |-> ListOf(export_errors), doc |-> doc,
     total_entities |-> total_entities]

\* The files analysed one after another: one that cannot be loaded, a line,
\* two texts, and a line whose missing layer makes the layer check raise.
SameInstanceFiles ==
    {Unloadable,
     Loadable([profile |-> PlainProfile, msp |-> <<LineCut>>, psp |-> <<>>]),
     Loadable([profile |-> PlainProfile, msp |-> <<TextRef, TextRef>>,
               psp |-> <<>>]),
     Loadable([profile |-> PlainProfile, msp |-> <<LineNoLayer>>, psp |-> <<>>])}

\* analyzer = DXFAnalyzer()
InitSameInstance ==
    /\ errors = [ref |-> 1, heap |-> <<NewAnalyzer.errors>>]
    /\ warnings = [ref |-> 1, heap |-> <<NewAnalyzer.warnings>>]
    /\ export_errors = [ref |-> 1, heap |-> <<NewAnalyzer.export_errors>>]
    /\ doc = NewAnalyzer.doc
    /\ total_entities = NewAnalyzer.total_entities
    /\ pc = "idle"
    /\ file = Unloadable
    /\ via = "method"
    /\ health_percentage = 0
    /\ recommendations = <<>>
    /\ result = <<>>
    /\ outcome = "none"
    /\ ran = <<>>
    /\ earlier = <<>>
    /\ reused = FALSE

\* analyzer.analyze_dxf_file(f) on the one analyzer: _reset_analysis binds
\* three new lists.
CallOnSameInstance ==
    /\ pc = "idle"
    /\ Len(result) < MaxCalls
    /\ \E f \in SameInstanceFiles :
           /\ file' = f
           /\ errors' = NewList(errors)
           /\ warnings' = NewList(warnings)
           /\ export_errors' = NewList(export_errors)
           /\ doc' = ResetAnalysis(SelfOfLists).doc
           /\ total_entities' = ResetAnalysis(SelfOfLists).total_entities
    /\ pc' = "load"
    /\ health_percentage' = 0
    /\ recommendations' = <<>>
    /\ outcome' = "running"
    /\ ran' = <<>>
    /\ reused' = (outcome # "none")
    /\ UNCHANGED <<via, result, earlier>>

\* The load, the count, one validator, the health or the advice: what is
\* appended goes into the bound lists.
StepOnSameInstance ==
    /\ pc \notin {"idle", "assemble", "except", "raise"}
    /\ LET c == [pc |-> pc, file |-> file,
                 health_percentage |-> health_percentage,
                 recommendations |-> recommendations, result |-> <<>>,
                 outcome |-> outcome, ran |-> ran]
           n == CallStep(c, SelfOfLists)
       IN  /\ errors' = Store(errors, n.self.errors)
           /\ warnings' = Store(warnings, n.self.warnings)
           /\ export_errors' = Store(export_errors, n.self.export_errors)
           /\ doc' = n.self.doc
           /\ total_entities' = n.self.total_entities
           /\ pc' = n.call.pc
           /\ health_percentage' = n.call.health_percentage
           /\ recommendations' = n.call.recommendations
           /\ ran' = n.call.ran
    /\ UNCHANGED <<file, via, result, outcome, earlier, reused>>

\* return result: the result of the normal path refers to the bound lists.
ReturnOnSameInstance ==
    /\ pc = "assemble"
    /\ result' = Append(result,
           [AnalysisResult(SelfOfLists, health_percentage, recommendations)
               EXCEPT !.critical_errors = errors.ref,
                      !.warnings = warnings.ref,
                      !.export_errors = export_errors.ref])
    /\ outcome' = "returned"
    /\ pc' = "idle"
    /\ UNCHANGED <<errors, warnings, export_errors, doc, total_entities, file,
                   via, health_percentage, recommendations, ran, earlier,
                   reused>>

\* The except branch: the load-failure result refers to three lists made
\* for it, to which the analyzer is not bound.
ExceptOnSameInstance ==
    /\ pc = "except"
    /\ LET r == LoadFailureResult(SelfOfLists)
       IN  /\ errors' = [errors EXCEPT !.heap = Append(@, r.critical_errors)]
           /\ warnings' = [warnings EXCEPT !.heap = Append(@, r.warnings)]
           /\ export_errors' =
                  [export_errors EXCEPT !.heap = Append(@, r.export_errors)]
           /\ result' = Append(result,
                  [r EXCEPT !.critical_errors = Len(errors.heap) + 1,
                            !.warnings = Len(warnings.heap) + 1,
                            !.export_errors = Len(export_errors.heap) + 1])
    /\ outcome' = "returned"
    /\ pc' = "idle"
    /\ UNCHANGED <<doc, total_entities, file, via, health_percentage,
                   recommendations, ran, earlier, reused>>

NextSameInstance ==
    \/ CallOnSameInstance
    \/ StepOnSameInstance
    \/ ReturnOnSameInstance
    \/ ExceptOnSameInstance

SpecSameInstance == InitSameInstance /\ [][NextSameInstance]_vars

\* What the caller reads in the k-th result it received.
Held(k) ==
    [result[k] EXCEPT !.critical_errors = errors.heap[@],
                      !.warnings = warnings.heap[@],
                      !.export_errors = export_errors.heap[@]]

\* C23: a returned result is never changed afterwards: no step of a later
\* call on the same analyzer, successful or failed, changes the collections,
\* the entity count, the health or the recommendations of a result returned
\* before.
C23_ReturnedResultsKept ==
    [][\A k \in 1..Len(result) : Held(k)' = Held(k)]_vars

\* Three calls have returned: the first a normal result with records, the
\* second a load-failure result, the third a normal result with other
\* records than the first.
C23_Witness ==
    /\ pc = "idle"
    /\ Len(result) = 3
    /\ Held(1).summary.status # "ERROR"
    /\ Held(1).critical_errors # <<>>
    /\ Held(2).summary.status = "ERROR"
    /\ Held(3).summary.status # "ERROR"
    /\ Held(3).critical_errors # Held(1).critical_errors
    /\ ListOf(errors) = Held(3).critical_errors

\* The handles of the entities that lie in a layout other than the primary
\* drawing space.
C24_OtherLayoutHandles ==
    LET d == Get(doc)
    IN  {HandleNames[i] : i \in (Len(d.msp) + 1)..(Len(d.msp) + Len(d.psp))}

\* Some record with an id of the set ids lists an entity of another layout.
C24_ListedBy(ids) ==
    \E k \in 1..Len(errors) :
        /\ errors[k].error_id \in ids
        /\ \E h \in C24_OtherLayoutHandles : Lists(errors[k], h)

\* total_entities counts the entities of every layout.
C24_CountsEveryLayout ==
    total_entities = Len(Get(doc).msp) + Len(Get(doc).psp)

\* C24: the distance check (id 25) and the duplicate check (id 7) consider
\* only entities of the primary drawing space: an entity of another layout
\* is never listed in an id-25 record or in an id-7 record, while
\* total_entities counts the entities of every layout.
C24_PrimarySpaceOnly ==
    (Has(doc) /\ pc # "count") =>
        /\ ~C24_ListedBy({7, 25})
        /\ C24_CountsEveryLayout

\* C24 as amended: the distance check (id 25) considers only entities of the
\* primary drawing space, so an entity of another layout is never listed in
\* an id-25 record, while total_entities counts the entities of every
\* layout; the duplicate check (id 7) reads every layout, so once it has run
\* an entity of another layout that shares its fingerprint with another
\* entity of any layout is listed in an id-7 record.
C24_DistanceCheckPrimarySpaceOnly ==
    (Has(doc) /\ pc # "count") =>
        /\ ~C24_ListedBy({25})
        /\ C24_CountsEveryLayout
        /\ Completed("critical_errors") =>
               LET xs == AllEntities(Get(doc))
               IN  \A i \in 1..Len(xs) : \A j \in 1..Len(xs) :
                       (/\ xs[i].handle \in C24_OtherLayoutHandles
                        /\ j # i
                        /\ GetEntityHash(xs[j].ent) = GetEntityHash(xs[i].ent)) =>
                           \E k \in 1..Len(errors) :
                               /\ errors[k].error_id = 7
                               /\ Lists(errors[k], xs[i].handle)

\* The distance check has run on a line of the primary drawing space and a
\* line of the paper layout 0.0004 mm from it: the two are counted, an id-7
\* record lists both and no id-25 record exists.
C24_Witness ==
    /\ Completed("vector_distances")
    /\ Get(doc).msp = <<LineCut>>
    /\ Get(doc).psp = <<LineCutNear>>
    /\ total_entities = 2
    /\ C24_ListedBy({7})
    /\ \A k \in 1..Len(errors) : errors[k].error_id # 25

\* C25: on the normal path the summary status is a function of the number of
\* Critical records only: READY exactly when there are none, NEEDS_REVIEW
\* exactly when there are 1 to 4, CRITICAL exactly when there are 5 or
\* more, whatever the warnings, the export errors and the health are.
C25_StatusByCriticalCount ==
    (Finished /\ Len(ran) = Len(Pipeline)) =>
        LET r == Get(result)
            n == Len(r.critical_errors)
        IN  /\ r.summary.status \in {"READY", "NEEDS_REVIEW", "CRITICAL"}
            /\ r.summary.status = "READY" <=> n = 0
            /\ r.summary.status = "NEEDS_REVIEW" <=> n \in 1..4
            /\ r.summary.status = "CRITICAL" <=> n >= 5

\* A result of the normal path with status READY and health 0.0: no critical
\* record, and warnings and export errors that weigh 100 points per entity
\* or more.
C25_Witness ==
    /\ Finished
    /\ Len(ran) = Len(Pipeline)
    /\ Get(result).summary.status = "READY"
    /\ Get(result).health_percentage = 0
    /\ Get(result).total_entities > 0
    /\ Get(result).warnings # <<>>
    /\ Get(result).export_errors # <<>>

====
